---- MODULE Spec2Model ----
(***************************************************************************)
(* A model of the oplog crate: the Operation decoder (src/src/oper.rs),    *)
(* the error type (src/src/error.rs) and the Oplog stream                  *)
(* (src/src/lib.rs).                                                       *)
(*                                                                         *)
(* Two specifications are given.  SpecDecode draws one BSON document from  *)
(* a bounded universe and applies Operation::new to it.  Spec is the Oplog *)
(* stream polling a cursor whose outcomes are chosen by the environment.   *)
(***************************************************************************)
EXTENDS Integers, Sequences, FiniteSets, TLC

VARIABLES
    document,   \* SpecDecode: the document handed to Operation::new
    result,     \* SpecDecode: what Operation::new returned (NotCalled before)
    delivered,  \* Spec: the ready outcomes the cursor has handed out, in order
    yielded,    \* Spec: the items the Oplog stream has yielded, in order
    last,       \* Spec: what the latest poll_next call returned
    aborted     \* Spec: a poll_next call unwound with a panic

vars == <<document, result, delivered, yielded, last, aborted>>

-----------------------------------------------------------------------------
(* Bounds of the model.                                                    *)

\* Longest applyOps array in the document universe.
MaxOps == 2
\* Deepest nesting of applyOps commands in the document universe.
MaxDepth == 3
\* Most ready outcomes the cursor hands out in one behaviour.
MaxPulls == 4

-----------------------------------------------------------------------------
(* Rust's Option, Result and an unwinding panic.                           *)

Some(v) == [some |-> TRUE, v |-> v]
None == [some |-> FALSE]

Ok(v) == [r |-> "Ok", v |-> v]
Err(e) == [r |-> "Err", e |-> e]
Panic == [r |-> "Panic"]

-----------------------------------------------------------------------------
(* BSON values.  A Document is an ordered list of (key, value) entries     *)
(* with distinct keys; a Bson is a tagged value.                           *)

String(s) == [k |-> "String", s |-> s]
Int32(n) == [k |-> "Int32", n |-> n]
Timestamp(t, i) == [k |-> "Timestamp", time |-> t, increment |-> i]
Document(d) == [k |-> "Document", d |-> d]
Array(a) == [k |-> "Array", a |-> a]

Entry(key, value) == <<[key |-> key, value |-> value]>>

\* Document::get: the value stored under key, if any.
get(d, key) ==
    IF \E i \in 1..Len(d) : d[i].key = key
    THEN Some(d[CHOOSE i \in 1..Len(d) : d[i].key = key].value)
    ELSE None

\* Bson::as_document and Bson::as_str.
as_document(b) == IF b.k = "Document" THEN Some(b.d) ELSE None
as_str(b) == IF b.k = "String" THEN Some(b.s) ELSE None

\* Option::and_then with the four continuations from_noop chains.
and_then_as_document(opt) == IF opt.some THEN as_document(opt.v) ELSE None
and_then_get_msg(opt) == IF opt.some THEN get(opt.v, "msg") ELSE None
and_then_as_str(opt) == IF opt.some THEN as_str(opt.v) ELSE None

\* bson::document::ValueAccessError.
NotPresent == "NotPresent"
UnexpectedType == "UnexpectedType"

\* The typed accessors Document::get_str, get_timestamp, get_document and
\* get_array: the value when the field holds that type, UnexpectedType when
\* it holds another, NotPresent when there is no such field.
get_typed(d, key, kind) ==
    LET f == get(d, key)
    IN  IF ~f.some THEN Err(NotPresent)
        ELSE IF f.v.k # kind THEN Err(UnexpectedType)
        ELSE Ok(f.v)

get_str_wrong_type_absent(d, key) ==
    LET r == get_typed(d, key, "String")
    IN  IF r.r = "Ok" THEN Ok(r.v.s) ELSE Err(NotPresent)

get_str(d, key) ==
    LET r == get_typed(d, key, "String")
    IN  IF r.r = "Ok" THEN Ok(r.v.s) ELSE r

get_timestamp(d, key) == get_typed(d, key, "Timestamp")

get_document(d, key) ==
    LET r == get_typed(d, key, "Document")
    IN  IF r.r = "Ok" THEN Ok(r.v.d) ELSE r

get_array(d, key) ==
    LET r == get_typed(d, key, "Array")
    IN  IF r.r = "Ok" THEN Ok(r.v.a) ELSE r

-----------------------------------------------------------------------------
(* error.rs: the Error enum and its two From conversions.                  *)

Database(original) == [e |-> "Database", original |-> original]
MissingField(access) == [e |-> "MissingField", access |-> access]
UnknownOperation(op) == [e |-> "UnknownOperation", op |-> op]
InvalidOperation == [e |-> "InvalidOperation"]

\* impl From<bson::document::ValueAccessError> for Error
from_ValueAccessError(original) == MissingField(original)

\* impl From<mongodb::error::Error> for Error
from_mongodb_error(original) == Database(original)

-----------------------------------------------------------------------------
(* oper.rs: timestamp_to_datetime.                                         *)

\* chrono's Utc.timestamp(secs, nsecs) unwraps timestamp_opt, which is None
\* (so the call panics) once nsecs reaches two thousand million.
NanosecondLimit == 2000000000

timestamp_to_datetime(timestamp) ==
    LET seconds == timestamp.time
        nanoseconds == timestamp.increment
    IN  IF nanoseconds >= NanosecondLimit
        THEN Panic
        ELSE [secs |-> seconds, nanos |-> nanoseconds]

-----------------------------------------------------------------------------
(* oper.rs: the Operation variants.                                        *)

Noop(timestamp, message) ==
    [variant |-> "Noop", timestamp |-> timestamp, message |-> message]
Insert(timestamp, namespace, doc) ==
    [variant |-> "Insert", timestamp |-> timestamp, namespace |-> namespace,
     document |-> doc]
Update(timestamp, namespace, query, update) ==
    [variant |-> "Update", timestamp |-> timestamp, namespace |-> namespace,
     query |-> query, update |-> update]
Delete(timestamp, namespace, query) ==
    [variant |-> "Delete", timestamp |-> timestamp, namespace |-> namespace,
     query |-> query]
Command(timestamp, namespace, command) ==
    [variant |-> "Command", timestamp |-> timestamp, namespace |-> namespace,
     command |-> command]
ApplyOps(timestamp, namespace, operations) ==
    [variant |-> "ApplyOps", timestamp |-> timestamp, namespace |-> namespace,
     operations |-> operations]

\* The `?` on an accessor: the ValueAccessError converted into Error.
Question(r) == Err(from_ValueAccessError(r.e))

-----------------------------------------------------------------------------
(* oper.rs: impl Operation.  A decoder returns Ok(operation), Err(error)   *)
(* or Panic when timestamp_to_datetime unwinds while the Ok value is       *)
(* built.  The accessors are read in the order of the source, each         *)
(* followed by `?`.                                                        *)

RECURSIVE new(_), from_bson(_), from_command(_), collect(_)
RECURSIVE collect_skips_failures(_), collect_reversed(_)
RECURSIVE from_command_requires_array(_)

\* Returns a no-op operation for a given document.
from_noop_requires_o(d) ==
    LET ts == get_timestamp(d, "ts")
        o == get_document(d, "o")
        message == and_then_as_str(and_then_get_msg(Some(o.v)))
    IN  IF ts.r = "Err" THEN Question(ts)
        ELSE IF o.r = "Err" THEN Question(o)
        ELSE LET timestamp == timestamp_to_datetime(ts.v)
             IN  IF timestamp = Panic THEN Panic
                 ELSE Ok(Noop(timestamp, message))

from_noop(d) ==
    LET ts == get_timestamp(d, "ts")
        message ==
            and_then_as_str(
                and_then_get_msg(and_then_as_document(get(d, "o"))))
    IN  IF ts.r = "Err" THEN Question(ts)
        ELSE LET timestamp == timestamp_to_datetime(ts.v)
             IN  IF timestamp = Panic THEN Panic
                 ELSE Ok(Noop(timestamp, message))

\* Return an insert operation for a given document.
from_insert(d) ==
    LET ts == get_timestamp(d, "ts")
        ns == get_str(d, "ns")
        o == get_document(d, "o")
    IN  IF ts.r = "Err" THEN Question(ts)
        ELSE IF ns.r = "Err" THEN Question(ns)
        ELSE IF o.r = "Err" THEN Question(o)
        ELSE LET timestamp == timestamp_to_datetime(ts.v)
             IN  IF timestamp = Panic THEN Panic
                 ELSE Ok(Insert(timestamp, ns.v, o.v))

\* Return an update operation for a given document.
from_update_swapped(d) ==
    LET ts == get_timestamp(d, "ts")
        ns == get_str(d, "ns")
        o == get_document(d, "o")
        o2 == get_document(d, "o2")
    IN  IF ts.r = "Err" THEN Question(ts)
        ELSE IF ns.r = "Err" THEN Question(ns)
        ELSE IF o.r = "Err" THEN Question(o)
        ELSE IF o2.r = "Err" THEN Question(o2)
        ELSE LET timestamp == timestamp_to_datetime(ts.v)
             IN  IF timestamp = Panic THEN Panic
                 ELSE Ok(Update(timestamp, ns.v, o.v, o2.v))

from_update(d) ==
    LET ts == get_timestamp(d, "ts")
        ns == get_str(d, "ns")
        o == get_document(d, "o")
        o2 == get_document(d, "o2")
    IN  IF ts.r = "Err" THEN Question(ts)
        ELSE IF ns.r = "Err" THEN Question(ns)
        ELSE IF o.r = "Err" THEN Question(o)
        ELSE IF o2.r = "Err" THEN Question(o2)
        ELSE LET timestamp == timestamp_to_datetime(ts.v)
             IN  IF timestamp = Panic THEN Panic
                 ELSE Ok(Update(timestamp, ns.v, o2.v, o.v))

\* Return a delete operation for a given document.
from_delete(d) ==
    LET ts == get_timestamp(d, "ts")
        ns == get_str(d, "ns")
        o == get_document(d, "o")
    IN  IF ts.r = "Err" THEN Question(ts)
        ELSE IF ns.r = "Err" THEN Question(ns)
        ELSE IF o.r = "Err" THEN Question(o)
        ELSE LET timestamp == timestamp_to_datetime(ts.v)
             IN  IF timestamp = Panic THEN Panic
                 ELSE Ok(Delete(timestamp, ns.v, o.v))

\* ops.iter().map(|bson| Operation::from_bson(bson))
\*    .collect::<Result<Vec<Operation>>>():
\* the elements are decoded in array order and the first one that is not Ok
\* ends the collection with its outcome.
collect_skips_failures(ops) ==
    IF ops = <<>> THEN Ok(<<>>)
    ELSE LET head == from_bson(Head(ops))
             tail == collect_skips_failures(Tail(ops))
         IN  IF tail.r # "Ok" THEN tail
             ELSE IF head.r # "Ok" THEN tail
             ELSE Ok(<<head.v>> \o tail.v)

collect_reversed(ops) ==
    IF ops = <<>> THEN Ok(<<>>)
    ELSE LET head == from_bson(Head(ops))
         IN  IF head.r # "Ok" THEN head
             ELSE LET tail == collect_reversed(Tail(ops))
                  IN  IF tail.r # "Ok" THEN tail
                      ELSE Ok(tail.v \o <<head.v>>)

collect(ops) ==
    IF ops = <<>> THEN Ok(<<>>)
    ELSE LET head == from_bson(Head(ops))
         IN  IF head.r # "Ok" THEN head
             ELSE LET tail == collect(Tail(ops))
                  IN  IF tail.r # "Ok" THEN tail
                      ELSE Ok(<<head.v>> \o tail.v)

\* Return a command operation for a given document: an ApplyOps when
\* o.applyOps is an array, a Command otherwise.
from_command_requires_array(d) ==
    LET ts == get_timestamp(d, "ts")
        ns == get_str(d, "ns")
        o == get_document(d, "o")
    IN  IF ts.r = "Err" THEN Question(ts)
        ELSE IF ns.r = "Err" THEN Question(ns)
        ELSE IF o.r = "Err" THEN Question(o)
        ELSE LET ops == get_array(o.v, "applyOps")
                 timestamp == timestamp_to_datetime(ts.v)
             IN  IF ops.r = "Ok"
                 THEN LET operations == collect(ops.v)
                      IN  IF operations.r # "Ok" THEN operations
                          ELSE IF timestamp = Panic THEN Panic
                          ELSE Ok(ApplyOps(timestamp, ns.v, operations.v))
                 ELSE IF ops.e = UnexpectedType THEN Question(ops)
                 ELSE IF timestamp = Panic THEN Panic
                 ELSE Ok(Command(timestamp, ns.v, o.v))

from_command(d) ==
    LET ts == get_timestamp(d, "ts")
        ns == get_str(d, "ns")
        o == get_document(d, "o")
    IN  IF ts.r = "Err" THEN Question(ts)
        ELSE IF ns.r = "Err" THEN Question(ns)
        ELSE IF o.r = "Err" THEN Question(o)
        ELSE LET ops == get_array(o.v, "applyOps")
                 timestamp == timestamp_to_datetime(ts.v)
             IN  IF ops.r = "Ok"
                 THEN LET operations == collect(ops.v)
                      IN  IF operations.r # "Ok" THEN operations
                          ELSE IF timestamp = Panic THEN Panic
                          ELSE Ok(ApplyOps(timestamp, ns.v, operations.v))
                 ELSE IF timestamp = Panic THEN Panic
                 ELSE Ok(Command(timestamp, ns.v, o.v))

\* Returns an operation from any BSON value.
from_bson(bson) ==
    IF bson.k = "Document" THEN new(bson.d) ELSE Err(InvalidOperation)

\* Try to create a new Operation from a BSON document.
new_reads_ts_first(d) ==
    LET op == get_str(d, "op")
        ts == get_timestamp(d, "ts")
    IN  IF op.r = "Err" THEN Question(op)
        ELSE IF ts.r = "Err" THEN Question(ts)
        ELSE IF op.v = "n" THEN from_noop(d)
        ELSE IF op.v = "i" THEN from_insert(d)
        ELSE IF op.v = "u" THEN from_update(d)
        ELSE IF op.v = "d" THEN from_delete(d)
        ELSE IF op.v = "c" THEN from_command(d)
        ELSE Err(UnknownOperation(op.v))

new(d) ==
    LET op == get_str(d, "op")
    IN  IF op.r = "Err" THEN Question(op)
        ELSE IF op.v = "n" THEN from_noop(d)
        ELSE IF op.v = "i" THEN from_insert(d)
        ELSE IF op.v = "u" THEN from_update(d)
        ELSE IF op.v = "d" THEN from_delete(d)
        ELSE IF op.v = "c" THEN from_command(d)
        ELSE Err(UnknownOperation(op.v))

-----------------------------------------------------------------------------
(* The bounded universe of documents Operation::new is applied to.  A      *)
(* document is put together from one choice per field: absent, present     *)
(* with the wrong type, or present and well typed.                         *)

\* The sequences over S of length at most n.
RECURSIVE SeqsUpTo(_, _)
SeqsUpTo(S, n) ==
    IF n = 0 THEN {<<>>}
    ELSE LET shorter == SeqsUpTo(S, n - 1)
         IN  shorter \cup {<<x>> \o s : x \in S, s \in {t \in shorter : Len(t) = n - 1}}

KnownCodes == {"n", "i", "u", "d", "c"}
UnknownCodes == {"x", "db"}

\* An increment timestamp_to_datetime converts, and one at which it panics.
Timestamps ==
    {Timestamp(1479561394, 0), Timestamp(1483789052, 7),
     Timestamp(1479561394, NanosecondLimit)}

OpChoices ==
    {<<>>, Entry("op", Int32(1))}
        \cup {Entry("op", String(c)) : c \in KnownCodes \cup UnknownCodes}
TsChoices ==
    {<<>>, Entry("ts", String("now"))} \cup {Entry("ts", t) : t \in Timestamps}
NsChoices == {<<>>, Entry("ns", Int32(0)), Entry("ns", String("foo.bar"))}
O2Choices ==
    {<<>>, Entry("o2", String("q")), Entry("o2", Document(Entry("_id", Int32(1))))}
VChoices == {<<>>, Entry("v", Int32(2))}

\* Payloads for "o" that hold no applyOps array.
PlainPayloads ==
    {Entry("foo", String("bar")),
     Entry("msg", String("initiating set")),
     Entry("msg", Int32(1)),
     Entry("applyOps", String("none")),
     Entry("applyOps", Int32(0)),
     Entry("applyOps", Document(Entry("op", String("i"))))}
PlainOChoices ==
    {<<>>, Entry("o", String("p"))}
        \cup {Entry("o", Document(p)) : p \in PlainPayloads}

MakeDocument(ts, v, op, ns, o2, o) == ts \o v \o op \o ns \o o2 \o o

PlainDocuments ==
    {MakeDocument(ts, v, op, ns, o2, o) :
        ts \in TsChoices, v \in VChoices, op \in OpChoices,
        ns \in NsChoices, o2 \in O2Choices, o \in PlainOChoices}

\* An op="c" document whose o.applyOps is the array ops.
ApplyOpsDocument(ts, ns, ops) ==
    MakeDocument(ts, <<>>, Entry("op", String("c")), ns, <<>>,
                 Entry("o", Document(Entry("applyOps", Array(ops)))))

GoodTs == Entry("ts", Timestamp(1483789052, 7))
GoodNs == Entry("ns", String("foo.$cmd"))

ValidInsert ==
    MakeDocument(Entry("ts", Timestamp(1479561394, 0)), Entry("t", Int32(2)),
                 Entry("op", String("i")), Entry("ns", String("foo.bar")), <<>>,
                 Entry("o", Document(Entry("_id", Int32(1)) \o Entry("foo", String("bar")))))
ValidDelete ==
    MakeDocument(Entry("ts", Timestamp(1479421186, 0)), <<>>,
                 Entry("op", String("d")), Entry("ns", String("foo.bar")), <<>>,
                 Entry("o", Document(Entry("_id", Int32(1)))))

\* An insert without ns, which fails to decode.
InsertWithoutNs ==
    MakeDocument(Entry("ts", Timestamp(1479561394, 0)), <<>>,
                 Entry("op", String("i")), <<>>, <<>>,
                 Entry("o", Document(Entry("foo", String("bar")))))

\* The array elements that are not applyOps commands themselves: two that
\* decode, one that is no document, three documents that fail to decode,
\* and one whose timestamp makes the conversion panic.
BaseElements ==
    {Document(ValidInsert),
     Document(ValidDelete),
     Int32(1),
     Document(InsertWithoutNs),
     Document(MakeDocument(Entry("ts", String("now")), <<>>,
                           Entry("op", String("n")), <<>>, <<>>, <<>>)),
     Document(Entry("op", String("x"))),
     Document(MakeDocument(Entry("ts", Timestamp(1479561394, NanosecondLimit)), <<>>,
                           Entry("op", String("n")), <<>>, <<>>, <<>>))}

\* An applyOps command around a valid insert followed by the element e.
Wrap(e) == Document(ApplyOpsDocument(GoodTs, GoodNs, <<Document(ValidInsert), e>>))

\* The element e wrapped n times.
RECURSIVE Chain(_, _)
Chain(n, e) == IF n = 0 THEN e ELSE Wrap(Chain(n - 1, e))

\* The elements that are wrapped more than once.
CoreElements == {Document(ValidInsert), Int32(1), Document(InsertWithoutNs)}

\* Array elements holding at most n levels of applyOps: the base elements,
\* the empty applyOps command, every base element wrapped once, and the
\* core elements wrapped up to n times.
Elements(n) ==
    IF n = 0 THEN BaseElements
    ELSE BaseElements
            \cup {Document(ApplyOpsDocument(GoodTs, GoodNs, <<>>))}
            \cup {Wrap(e) : e \in BaseElements}
            \cup {Chain(m, e) : m \in 2..n, e \in CoreElements}

Arrays == SeqsUpTo(Elements(MaxDepth - 1), MaxOps)

ApplyOpsDocuments ==
    {ApplyOpsDocument(ts, ns, ops) :
        ts \in {GoodTs, Entry("ts", Timestamp(1483789052, NanosecondLimit))},
        ns \in {Entry("ns", Int32(0)), GoodNs},
        ops \in Arrays}

Documents == PlainDocuments \cup ApplyOpsDocuments

-----------------------------------------------------------------------------
(* SpecDecode: Operation::new applied to one document of the universe.     *)

NotCalled == [r |-> "NotCalled"]

\* The stream is not used under SpecDecode.
StreamIdle ==
    /\ delivered = <<>>
    /\ yielded = <<>>
    /\ last = NotCalled
    /\ aborted = FALSE

InitDecode ==
    /\ document \in Documents
    /\ result = NotCalled
    /\ StreamIdle

\* let operation = Operation::new(&document);
New ==
    /\ result = NotCalled
    /\ result' = new(document)
    /\ UNCHANGED <<document, delivered, yielded, last, aborted>>

NextDecode == New

SpecDecode == InitDecode /\ [][NextDecode]_vars

-----------------------------------------------------------------------------
(* lib.rs: the Oplog stream.  Its only field is the cursor, which belongs  *)
(* to the driver: each poll of the cursor is answered by the environment   *)
(* with Pending, a document, a driver error or the end of the cursor.      *)

Pending == [poll |-> "Pending"]
Ready(v) == [poll |-> "Ready", v |-> v]

\* The documents the cursor hands out: an insert, an applyOps command, a
\* document with an unknown code, one without op, and one whose timestamp
\* makes the conversion panic.
CursorDocuments ==
    {ValidInsert,
     ApplyOpsDocument(GoodTs, GoodNs, <<Document(ValidInsert), Document(ValidDelete)>>),
     Entry("op", String("x")),
     Entry("foo", String("bar")),
     MakeDocument(Entry("ts", Timestamp(1479561394, NanosecondLimit)), <<>>,
                  Entry("op", String("n")), <<>>, <<>>, <<>>)}

\* mongodb::error::Error values.
DriverErrors == {"connection reset"}

\* What Cursor::poll_next can return.
CursorPolls ==
    {Pending, Ready(None)}
        \cup {Ready(Some(Ok(d))) : d \in CursorDocuments}
        \cup {Ready(Some(Err(e))) : e \in DriverErrors}

\* Stream::poll_next for Oplog, given what the cursor's poll_next returned:
\* ready! passes Pending on, a document goes through Operation::new, a
\* driver error through Error::from, and the end of the cursor is the end
\* of the stream.
poll_next_closes_on_error(res) ==
    IF \E k \in 1..Len(yielded) : yielded[k].r = "Err" THEN Ready(None)
    ELSE IF res = Pending THEN Pending
    ELSE IF res.v.some
    THEN LET r == res.v.v
         IN  IF r.r = "Ok"
             THEN LET o == new(r.v)
                  IN  IF o = Panic THEN Panic
                      ELSE IF o.r = "Ok" THEN Ready(Some(Ok(o.v)))
                      ELSE Ready(Some(Err(o.e)))
             ELSE Ready(Some(Err(from_mongodb_error(r.e))))
    ELSE Ready(None)

poll_next_skips_errors(res) ==
    IF res = Pending THEN Pending
    ELSE IF res.v.some
    THEN LET r == res.v.v
         IN  IF r.r = "Ok"
             THEN LET o == new(r.v)
                  IN  IF o = Panic THEN Panic
                      ELSE IF o.r = "Ok" THEN Ready(Some(Ok(o.v)))
                      ELSE Pending
             ELSE Pending
    ELSE Ready(None)

poll_next_ends_when_pending(res) ==
    IF res = Pending THEN Ready(None)
    ELSE IF res.v.some
    THEN LET r == res.v.v
         IN  IF r.r = "Ok"
             THEN LET o == new(r.v)
                  IN  IF o = Panic THEN Panic
                      ELSE IF o.r = "Ok" THEN Ready(Some(Ok(o.v)))
                      ELSE Ready(Some(Err(o.e)))
             ELSE Ready(Some(Err(from_mongodb_error(r.e))))
    ELSE Ready(None)

poll_next(res) ==
    IF res = Pending THEN Pending
    ELSE IF res.v.some
    THEN LET r == res.v.v
         IN  IF r.r = "Ok"
             THEN LET o == new(r.v)
                  IN  IF o = Panic THEN Panic
                      ELSE IF o.r = "Ok" THEN Ready(Some(Ok(o.v)))
                      ELSE Ready(Some(Err(o.e)))
             ELSE Ready(Some(Err(from_mongodb_error(r.e))))
    ELSE Ready(None)

\* The decoder is not used on its own under Spec.
DecodeIdle ==
    /\ document = <<>>
    /\ result = NotCalled

\* Ok(Oplog { cursor }): nothing polled yet.
Init ==
    /\ DecodeIdle
    /\ delivered = <<>>
    /\ yielded = <<>>
    /\ last = NotCalled
    /\ aborted = FALSE

\* One call of Oplog::poll_next.  The cursor is polled once; a ready
\* outcome is consumed from the cursor; an item is yielded when the call
\* returns Ready(Some(item)); a panic of the decoder unwinds the caller.
PollNext ==
    /\ ~aborted
    /\ Len(delivered) < MaxPulls
    /\ \E res \in CursorPolls :
          LET out == poll_next(res)
          IN  /\ delivered' = IF res = Pending THEN delivered
                                ELSE Append(delivered, res.v)
              /\ last' = out
              /\ aborted' = (out = Panic)
              /\ yielded' = IF out # Panic /\ out # Pending /\ out.v.some
                              THEN Append(yielded, out.v.v)
                              ELSE yielded
    /\ UNCHANGED <<document, result>>

Next == PollNext

Spec == Init /\ [][Next]_vars

-----------------------------------------------------------------------------
(* Properties of the Oplog stream, checked under Spec.                     *)

\* The position of the first end-of-cursor among the delivered outcomes
\* (one past the end when there is none), and the outcomes before it.
FirstEnd ==
    IF \E k \in 1..Len(delivered) : ~delivered[k].some
    THEN CHOOSE k \in 1..Len(delivered) :
            /\ ~delivered[k].some
            /\ \A j \in 1..(k - 1) : delivered[j].some
    ELSE Len(delivered) + 1
Exhausted == FirstEnd <= Len(delivered)
Before == SubSeq(delivered, 1, FirstEnd - 1)

\* A poll result that carries an item.
IsItem(p) == p # NotCalled /\ p # Panic /\ p # Pending /\ p.v.some

\* The item a cursor outcome Some(x) stands for: the decoded document or
\* the driver error wrapped as Error::Database.
ItemFor(x) == IF x.v.r = "Ok" THEN new(x.v.v) ELSE Err(Database(x.v.e))
\* The outcome is a document on which the timestamp conversion panics.
Aborts(x) == x.some /\ x.v.r = "Ok" /\ new(x.v.v) = Panic
\* The outcome is a driver error or a document that fails to decode.
Fails(x) == x.some /\ ~Aborts(x) /\ ItemFor(x).r = "Err"

\* C1: once a pull has observed the end of the cursor, no later pull
\* yields an item, whatever the cursor would deliver if polled again.
C1_ClosedIsTerminal == Exhausted => Len(yielded) <= Len(Before)

C4_ErrorEndsIteration ==
    \A k \in 1..Len(yielded) : yielded[k].r = "Err" => k = Len(yielded)

-----------------------------------------------------------------------------
(* Properties of the decoder, checked under SpecDecode on the state in     *)
(* which Operation::new has returned.  The fields of the input are read    *)
(* here with Document::get alone.                                          *)

Decoded == result # NotCalled

\* Field key of d is present and holds a value of the given BSON type.
Has(d, key, kind) == get(d, key).some /\ get(d, key).v.k = kind
Value(d, key) == get(d, key).v
\* The document's op is the string code.
HasOp(d, code) == Has(d, "op", "String") /\ Value(d, "op").s = code
\* The document has a timestamp ts that timestamp_to_datetime converts.
ValidTs(d) ==
    /\ Has(d, "ts", "Timestamp")
    /\ timestamp_to_datetime(Value(d, "ts")) # Panic
Datetime(d) == timestamp_to_datetime(Value(d, "ts"))
\* The document's o is a document holding an applyOps array.
HasApplyOps(d) ==
    /\ Has(d, "o", "Document")
    /\ Has(Value(d, "o").d, "applyOps", "Array")
Ops(d) == Value(Value(d, "o").d, "applyOps").a

\* C5: for op="c" with a valid ts (one the conversion accepts), a string
\* ns and o.applyOps an array of N elements each of which decodes on its
\* own, the result is ApplyOps with N operations, the k-th being the
\* decoding of the k-th element as a top-level document, in array order,
\* also when an element is an applyOps command itself.
C5_ApplyOpsDecodesEachElement ==
    (/\ Decoded
     /\ HasOp(document, "c")
     /\ ValidTs(document)
     /\ Has(document, "ns", "String")
     /\ HasApplyOps(document)
     /\ \A k \in 1..Len(Ops(document)) :
            /\ Ops(document)[k].k = "Document"
            /\ new(Ops(document)[k].d).r = "Ok")
    => /\ result.r = "Ok"
       /\ result.v.variant = "ApplyOps"
       /\ result.v.timestamp = Datetime(document)
       /\ result.v.namespace = Value(document, "ns").s
       /\ Len(result.v.operations) = Len(Ops(document))
       /\ \A k \in 1..Len(Ops(document)) :
              result.v.operations[k] = new(Ops(document)[k].d).v

\* An ApplyOps of a Delete and an ApplyOps, the latter holding an Insert
\* and a third ApplyOps of two Inserts.
C5_Witness ==
    /\ Decoded
    /\ result.r = "Ok"
    /\ result.v.variant = "ApplyOps"
    /\ Len(result.v.operations) = 2
    /\ result.v.operations[1].variant = "Delete"
    /\ result.v.operations[2].variant = "ApplyOps"
    /\ Len(result.v.operations[2].operations) = 2
    /\ result.v.operations[2].operations[1].variant = "Insert"
    /\ result.v.operations[2].operations[2].variant = "ApplyOps"
    /\ Len(result.v.operations[2].operations[2].operations) = 2

\* The position of the first element of ops that does not decode to Ok
\* (0 when every element does).
FirstNotOk(ops) ==
    IF \E k \in 1..Len(ops) : from_bson(ops[k]).r # "Ok"
    THEN CHOOSE k \in 1..Len(ops) :
            /\ from_bson(ops[k]).r # "Ok"
            /\ \A j \in 1..(k - 1) : from_bson(ops[j]).r = "Ok"
    ELSE 0

C6_WitnessNested ==
    /\ Decoded
    /\ HasOp(document, "c")
    /\ HasApplyOps(document)
    /\ Len(Ops(document)) = 2
    /\ FirstNotOk(Ops(document)) = 1
    /\ Ops(document)[1].k = "Document"
    /\ HasOp(Ops(document)[1].d, "c")
    /\ Ops(document)[2].k # "Document"
    /\ result = Err(MissingField(NotPresent))

\* C7: an op that is a string other than "n", "i", "u", "d", "c" gives
\* UnknownOperation carrying that string, whatever other fields the
\* document has or lacks.
C7_UnknownCodeReported ==
    (/\ Decoded
     /\ Has(document, "op", "String")
     /\ Value(document, "op").s \notin KnownCodes)
    => result = Err(UnknownOperation(Value(document, "op").s))

\* The document {op: "x"} alone.
C7_Witness ==
    /\ Decoded
    /\ document = Entry("op", String("x"))
    /\ result = Err(UnknownOperation("x"))

\* The fields each code requires, in the order the decoder reads them,
\* with the BSON type each must hold.
Field(key, kind) == [key |-> key, kind |-> kind]
Required(code) ==
    IF code = "n" THEN <<Field("ts", "Timestamp")>>
    ELSE IF code = "u"
    THEN <<Field("ts", "Timestamp"), Field("ns", "String"),
           Field("o", "Document"), Field("o2", "Document")>>
    ELSE <<Field("ts", "Timestamp"), Field("ns", "String"),
           Field("o", "Document")>>

\* How the access to a field that is absent or wrong-typed fails.
AccessError(d, key) ==
    IF get(d, key).some THEN UnexpectedType ELSE NotPresent

\* The rule of C8 for one document d and the outcome r of decoding it.
FieldRule(d, r) ==
    /\ ~Has(d, "op", "String") => r = Err(MissingField(AccessError(d, "op")))
    /\ (Has(d, "op", "String") /\ Value(d, "op").s \in KnownCodes) =>
          LET req == Required(Value(d, "op").s)
              bad == {i \in 1..Len(req) : ~Has(d, req[i].key, req[i].kind)}
          IN  bad # {} =>
                LET first == CHOOSE i \in bad : \A j \in bad : i <= j
                IN  r = Err(MissingField(AccessError(d, req[first].key)))

\* The documents nested in d's applyOps array, at any depth.
RECURSIVE Nested(_)
Nested(d) ==
    IF HasApplyOps(d)
    THEN UNION {{Ops(d)[k].d} \cup Nested(Ops(d)[k].d) :
                    k \in {j \in 1..Len(Ops(d)) : Ops(d)[j].k = "Document"}}
    ELSE {}

\* C8: when a required field is absent or wrong-typed the result is
\* MissingField and no Operation: op for every document, ts for "n",
\* ts, ns, o for "i", "d", "c", and ts, ns, o, o2 for "u"; the error is
\* NotPresent for an absent field and UnexpectedType for a wrong-typed one
\* (that of the first required field, in reading order, that is not
\* right); the same holds of the decoding of every document nested in
\* applyOps, and a nested MissingField that is the first failure of the
\* array comes out of the enclosing decode unchanged.
C8_MissingFieldReported ==
    Decoded =>
        /\ FieldRule(document, result)
        /\ \A n \in Nested(document) : FieldRule(n, new(n))
        /\ (/\ HasOp(document, "c")
            /\ Has(document, "ts", "Timestamp")
            /\ Has(document, "ns", "String")
            /\ HasApplyOps(document)
            /\ FirstNotOk(Ops(document)) # 0
            /\ from_bson(Ops(document)[FirstNotOk(Ops(document))]).r = "Err"
            /\ from_bson(Ops(document)[FirstNotOk(Ops(document))]).e.e = "MissingField")
           => result = from_bson(Ops(document)[FirstNotOk(Ops(document))])

\* An update whose ts, ns and o are right and whose o2 is wrong-typed.
C8_Witness ==
    /\ Decoded
    /\ HasOp(document, "u")
    /\ Has(document, "ts", "Timestamp")
    /\ Has(document, "ns", "String")
    /\ Has(document, "o", "Document")
    /\ get(document, "o2").some
    /\ result = Err(MissingField(UnexpectedType))

C10_NoopMessage ==
    (/\ Decoded
     /\ HasOp(document, "n")
     /\ ValidTs(document))
    => LET hasMsg == /\ Has(document, "o", "Document")
                     /\ Has(Value(document, "o").d, "msg", "String")
           message == IF hasMsg
                      THEN Some(Value(Value(document, "o").d, "msg").s)
                      ELSE None
       IN  result = Ok(Noop(Datetime(document), message))

\* A no-op without ns whose o is no document: a Noop without message.
C10_Witness ==
    /\ Decoded
    /\ HasOp(document, "n")
    /\ ~get(document, "ns").some
    /\ get(document, "o").some
    /\ ~Has(document, "o", "Document")
    /\ result.r = "Ok"
    /\ result.v.variant = "Noop"
    /\ result.v.message = None

\* The decode of d reads every required field with success and so goes on
\* to convert ts (documents holding an applyOps array left aside).
ReachesConversion(d) ==
    /\ Has(d, "op", "String")
    /\ Value(d, "op").s \in KnownCodes
    /\ \A i \in 1..Len(Required(Value(d, "op").s)) :
          Has(d, Required(Value(d, "op").s)[i].key,
                 Required(Value(d, "op").s)[i].kind)
    /\ ~HasApplyOps(d)

\* C11: for every timestamp (seconds, ordinal) the conversion returns a
\* datetime whose epoch second is seconds and whose nanosecond part is
\* ordinal; it returns for every ordinal, so that a document with any ts
\* decodes to exactly one Ok or Err: here, a document whose decode
\* converts its ts decodes to an Operation carrying that datetime.
C11_ConversionIsTotal ==
    (Decoded /\ ReachesConversion(document))
    => /\ result.r = "Ok"
       /\ result.v.timestamp =
              [secs |-> Value(document, "ts").time,
               nanos |-> Value(document, "ts").increment]

\* C12: a pull completes only on a ready outcome of the cursor.  A pull
\* that finds the cursor pending (it consumes nothing) returns Pending:
\* no item, no end of the stream, nothing decoded; a pull that returns
\* anything else has consumed exactly one cursor outcome.
C12_PendingPullSuspends ==
    [][/\ delivered' = delivered =>
            /\ last' = Pending
            /\ yielded' = yielded
            /\ ~aborted'
       /\ last' # Pending =>
            /\ Len(delivered') = Len(delivered) + 1
            /\ SubSeq(delivered', 1, Len(delivered)) = delivered
            /\ Len(yielded') <= Len(yielded) + 1]_vars

\* After a pull that yielded an item, a pull finds the cursor pending and
\* is suspended.
C12_Witness ==
    /\ last = Pending
    /\ Len(delivered) = 1
    /\ Len(yielded) = 1

\* C13: for op="c" with a valid ts (one the conversion accepts), a string
\* ns and a document o, an applyOps field of o that is present but no
\* array gives no error but Command with command = o, as an absent
\* applyOps does; the result is an ApplyOps exactly when o.applyOps is an
\* array whose elements all decode.
C13_NonArrayApplyOpsIsCommand ==
    (/\ Decoded
     /\ HasOp(document, "c")
     /\ ValidTs(document)
     /\ Has(document, "ns", "String")
     /\ Has(document, "o", "Document"))
    => LET o == Value(document, "o").d
           allDecode == /\ HasApplyOps(document)
                        /\ \A k \in 1..Len(Ops(document)) :
                              from_bson(Ops(document)[k]).r = "Ok"
       IN  /\ ~Has(o, "applyOps", "Array") =>
                 result = Ok(Command(Datetime(document),
                                     Value(document, "ns").s, o))
           /\ (result.r = "Ok" /\ result.v.variant = "ApplyOps") <=> allDecode

\* An o whose applyOps is a document: decoded to a Command holding o.
C13_Witness ==
    /\ Decoded
    /\ HasOp(document, "c")
    /\ Has(document, "o", "Document")
    /\ Has(Value(document, "o").d, "applyOps", "Document")
    /\ result.r = "Ok"
    /\ result.v.variant = "Command"
    /\ result.v.command = Value(document, "o").d

====
